---- MODULE Spec2Model ----
(***************************************************************************)
(* Model of process_leads_fixed.py: the batch pipeline                     *)
(*   process_struxure_leads -> process_deepwater_zips ->                   *)
(*   update_deepwater_dealers -> drop('Zip_Clean') -> to_csv               *)
(* and of the pure helper clean_zip_code.                                  *)
(*                                                                         *)
(* A text value is a sequence of one-character strings for the postal code *)
(* columns (whose characters the code inspects) and a TLA+ string for the  *)
(* columns the code only compares as a whole.  A cell is a tagged record:  *)
(* NaN (what read_csv gives for an empty field), Text, IntVal, FloatVal.   *)
(***************************************************************************)
EXTENDS Integers, Sequences, FiniteSets, TLC

VARIABLES
    pc,             \* position of main(), or of the clean_zip_code call
    leads_csv,      \* 'Struxure Website Leads - Sheet1.csv' on disk
    zips_csv,       \* 'Deepwater Zips V2 - V20.csv' on disk
    df,             \* the lead DataFrame (df_leads / df_updated: one object)
    zip_to_dealer,  \* the dict built by process_deepwater_zips
    stdout,         \* the count lines printed so far
    out_csv,        \* 'Struxure_Leads_Cleaned_Fixed.csv' on disk
    zip_str,        \* argument of a clean_zip_code call
    zip_ret         \* its return value

vars == <<pc, leads_csv, zips_csv, df, zip_to_dealer, stdout, out_csv, zip_str, zip_ret>>

----------------------------------------------------------------------------
(* Bounds of the model. *)

MaxZipLen == 6      \* longest generated clean_zip_code text argument
MaxZipDigits == 6   \* most digits of a generated numeric argument
MaxDedupLeads == 3  \* lead rows in the deduplication inputs
MaxFillLeads == 2   \* lead rows in the dealer-fill inputs
MaxFillZips == 1    \* dealer rows in the dealer-fill inputs
MaxMapRows == 2     \* dealer rows in the map-building inputs

----------------------------------------------------------------------------
(* Cell values. *)

NaN == [t |-> "nan"]
Text(s) == [t |-> "str", s |-> s]
IntVal(n) == [t |-> "int", n |-> n]
FloatVal(n) == [t |-> "float", n |-> n]     \* the float n.0

isna(v) == v.t = "nan"

DigitChars == <<"0", "1", "2", "3", "4", "5", "6", "7", "8", "9">>
Whitespace == {" ", "\t", "\n"}

IsDigit(c) == \E i \in 1..Len(DigitChars) : DigitChars[i] = c
IsSpace(c) == c \in Whitespace

RECURSIVE IntToStr(_)
IntToStr(n) ==
    IF n < 10 THEN <<DigitChars[n + 1]>>
    ELSE IntToStr(n \div 10) \o <<DigitChars[(n % 10) + 1]>>

\* str(zip_str)
str(v) ==
    CASE v.t = "str" -> v.s
      [] v.t = "int" -> IntToStr(v.n)
      [] v.t = "float" -> IntToStr(v.n) \o <<".", "0">>

RECURSIVE lstrip(_)
lstrip(s) == IF s # <<>> /\ IsSpace(Head(s)) THEN lstrip(Tail(s)) ELSE s

RECURSIVE rstrip(_)
rstrip(s) ==
    IF s # <<>> /\ IsSpace(s[Len(s)]) THEN rstrip(SubSeq(s, 1, Len(s) - 1)) ELSE s

strip(s) == rstrip(lstrip(s))

\* re.match(r'(\d{5})', s) matches: five digits at the start of s
re_match_5(s) == Len(s) >= 5 /\ \A i \in 1..5 : IsDigit(s[i])

\* clean_zip_code without the .strip()
clean_zip_code_nostrip(v) ==
    IF isna(v) \/ v = Text(<<>>) THEN <<>>
    ELSE IF re_match_5(str(v)) THEN SubSeq(str(v), 1, 5) ELSE <<>>

clean_zip_code(v) ==
    IF isna(v) \/ v = Text(<<>>) THEN <<>>
    ELSE LET zip_clean == strip(str(v))
         IN  IF re_match_5(zip_clean) THEN SubSeq(zip_clean, 1, 5) ELSE <<>>

----------------------------------------------------------------------------
(* Inputs of the clean_zip_code specification. *)

SeqUpTo(S, n) == UNION {[1..k -> S] : k \in 0..n}

ZipAlphabet == {"9", "0", "A", " ", "-"}
ZipDigits == {"9", "0", "1"}

RECURSIVE DigitsToInt(_)
DigitsToInt(s) ==
    IF s = <<>> THEN 0
    ELSE 10 * DigitsToInt(SubSeq(s, 1, Len(s) - 1))
         + (CHOOSE d \in 0..9 : DigitChars[d + 1] = s[Len(s)])

ExampleZips ==
    { <<"9","0","2","1","0","-","1","2","3","4">>,
      <<" ","9","0","2","1","0"," ">>,
      <<"A","B","C","1","2">>,
      <<"1","2","3","4">>,
      <<"\t","1","0","0","0","1","\n">> }

ZipArgs ==
    {NaN}
    \cup {Text(s) : s \in SeqUpTo(ZipAlphabet, MaxZipLen) \cup ExampleZips}
    \cup {IntVal(DigitsToInt(s)) : s \in SeqUpTo(ZipDigits, MaxZipDigits)}
    \cup {FloatVal(DigitsToInt(s)) : s \in SeqUpTo(ZipDigits, MaxZipDigits)}

Missing == [exists |-> FALSE]
NoDf == [columns |-> <<>>, index |-> <<>>, rows |-> <<>>]

InitZip ==
    /\ pc = "clean_call"
    /\ zip_str \in ZipArgs
    /\ zip_ret = <<>>
    /\ leads_csv = Missing
    /\ zips_csv = Missing
    /\ df = NoDf
    /\ zip_to_dealer = <<>>
    /\ stdout = <<>>
    /\ out_csv = Missing

CleanZipCode ==
    /\ pc = "clean_call"
    /\ zip_ret' = clean_zip_code(zip_str)
    /\ pc' = "clean_ret"
    /\ UNCHANGED <<leads_csv, zips_csv, df, zip_to_dealer, stdout, out_csv, zip_str>>

NextZip == CleanZipCode

SpecZip == InitZip /\ [][NextZip]_vars

----------------------------------------------------------------------------
(* DataFrames and CSV files.  A file is [exists, columns, rows]; a          *)
(* DataFrame is [columns, index, rows], index holding the row labels; a row *)
(* is a function from column name to cell.                                  *)

CsvFile(cols, rows) == [exists |-> TRUE, columns |-> cols, rows |-> rows]

\* pd.read_csv of an existing file: labels 0..n-1
read_csv(f) ==
    [columns |-> f.columns,
     index |-> [i \in 1..Len(f.rows) |-> i - 1],
     rows |-> f.rows]

\* pd.read_csv raises FileNotFoundError
read_csv_raises(f) == ~f.exists

\* a timestamp text is [t |-> "str", ok, day, tod]; pd.to_datetime raises on
\* a text that is no date-time
TsText(day, tod) == [t |-> "str", ok |-> TRUE, day |-> day, tod |-> tod]
BadTs == [t |-> "str", ok |-> FALSE, day |-> 0, tod |-> 0]

to_datetime_raises(c) == ~c.ok
to_datetime(c) == [t |-> "datetime", day |-> c.day, tod |-> c.tod]

\* Timestamp.dt.date
dt_date(ts) == [t |-> "date", day |-> ts.day]

\* df[col] = vals, one value per row; a new column goes last
SetColumn(d, col, vals) ==
    [columns |-> IF \E i \in 1..Len(d.columns) : d.columns[i] = col
                 THEN d.columns ELSE Append(d.columns, col),
     index |-> d.index,
     rows |-> [i \in 1..Len(d.rows) |-> (col :> vals[i]) @@ d.rows[i]]]

RECURSIVE SelectPositions(_, _, _)
SelectPositions(s, keep, i) ==
    IF i > Len(s) THEN <<>>
    ELSE (IF i \in keep THEN <<s[i]>> ELSE <<>>) \o SelectPositions(s, keep, i + 1)

\* df[mask]
BoolIndex(d, keep) ==
    [columns |-> d.columns,
     index |-> SelectPositions(d.index, keep, 1),
     rows |-> SelectPositions(d.rows, keep, 1)]

\* DataFrame.duplicated(subset, keep='first'): one pass down the rows with
\* the keys seen so far; a row whose key was seen is marked (NaN keys
\* compare equal)
KeyOf(row, subset) == [c \in subset |-> row[c]]

RECURSIVE duplicated_from(_, _, _, _)
duplicated_from(rows, subset, i, seen) ==
    IF i > Len(rows) THEN {}
    ELSE IF KeyOf(rows[i], subset) \in seen
         THEN {i} \cup duplicated_from(rows, subset, i + 1, seen)
         ELSE duplicated_from(rows, subset, i + 1, seen \cup {KeyOf(rows[i], subset)})

\* duplicated that only compares a row with the row right above it
duplicated_adjacent(d, subset) ==
    {i \in 2..Len(d.rows) : KeyOf(d.rows[i], subset) = KeyOf(d.rows[i - 1], subset)}

duplicated(d, subset) == duplicated_from(d.rows, subset, 1, {})

drop_duplicates(d, subset) ==
    BoolIndex(d, (1..Len(d.rows)) \ duplicated(d, subset))

\* DataFrame.drop(col, axis=1)
RECURSIVE WithoutName(_, _)
WithoutName(cols, col) ==
    IF cols = <<>> THEN <<>>
    ELSE (IF Head(cols) = col THEN <<>> ELSE <<Head(cols)>>) \o WithoutName(Tail(cols), col)

drop_column(d, col) ==
    [columns |-> WithoutName(d.columns, col),
     index |-> d.index,
     rows |-> [i \in 1..Len(d.rows) |->
                 [c \in (DOMAIN d.rows[i]) \ {col} |-> d.rows[i][c]]]]

\* df.iat-like write: idx taken as a 0-based position instead of a label
df_iat_set(d, idx, col, v) ==
    [d EXCEPT !.rows = [i \in 1..Len(d.rows) |->
        IF i - 1 = idx THEN (col :> v) @@ d.rows[i] ELSE d.rows[i]]]

\* df.at[idx, col] = v
df_at_set(d, idx, col, v) ==
    [d EXCEPT !.rows = [i \in 1..Len(d.rows) |->
        IF d.index[i] = idx THEN (col :> v) @@ d.rows[i] ELSE d.rows[i]]]

\* a map build in which the first pair with a key wins
RECURSIVE dict_zip_first(_, _, _)
dict_zip_first(keys, vals, i) ==
    IF i = 0 THEN <<>>
    ELSE dict_zip_first(keys, vals, i - 1) @@ (keys[i] :> vals[i])

\* dict(zip(keys, vals)): a sequential build, a later pair replacing an
\* earlier one with the same key
RECURSIVE dict_zip(_, _, _)
dict_zip(keys, vals, i) ==
    IF i = 0 THEN <<>>
    ELSE (keys[i] :> vals[i]) @@ dict_zip(keys, vals, i - 1)

\* the count lines of the console output
MsgOriginal == "Original number of leads"
MsgDeduped == "After removing same-day duplicates"
MsgZipCount == "Number of zip codes in Deepwater file"
MsgFound == "Found Deep Water leads"
MsgFoundEmpty == "Found Deep Water leads with empty dealer fields"
MsgUpdated == "Updated Deep Water leads with dealer information"
MsgRemaining == "Remaining Deep Water leads without dealer information"
MsgFinal == "Final number of leads"

Line(text, n) == [line |-> text, n |-> n]

----------------------------------------------------------------------------
(* process_struxure_leads *)

process_struxure_leads_raises ==
    \/ read_csv_raises(leads_csv)
    \/ \E i \in 1..Len(leads_csv.rows) : to_datetime_raises(leads_csv.rows[i]["Timestamp"])

\* pd.to_datetime(df['Timestamp'])
ParsedTimestamps(d) == [i \in 1..Len(d.rows) |-> to_datetime(d.rows[i]["Timestamp"])]
\* df['Timestamp'].dt.date
Dates(d) == [i \in 1..Len(d.rows) |-> dt_date(d.rows[i]["Timestamp"])]
\* df_deduped['Zip'].apply(clean_zip_code)
ZipCleans(d) == [i \in 1..Len(d.rows) |-> clean_zip_code(d.rows[i]["Zip"])]

df_with_timestamp ==
    SetColumn(read_csv(leads_csv), "Timestamp", ParsedTimestamps(read_csv(leads_csv)))

df_with_date == SetColumn(df_with_timestamp, "Date", Dates(df_with_timestamp))

df_deduped == drop_duplicates(df_with_date, {"Email", "Date"})

ProcessStruxureLeads ==
    /\ pc = "start"
    /\ IF process_struxure_leads_raises
       THEN /\ pc' = "aborted"
            /\ UNCHANGED <<df, stdout>>
       ELSE /\ df' = SetColumn(df_deduped, "Zip_Clean", ZipCleans(df_deduped))
            /\ stdout' = stdout \o
                 << Line(MsgOriginal, Len(leads_csv.rows)),
                    Line(MsgDeduped, Len(df_deduped.rows)) >>
            /\ pc' = "zips"
    /\ UNCHANGED <<leads_csv, zips_csv, zip_to_dealer, out_csv, zip_str, zip_ret>>

----------------------------------------------------------------------------
(* process_deepwater_zips *)

zip_clean_column(f) == [i \in 1..Len(f.rows) |-> clean_zip_code(f.rows[i]["zip"])]
dealer_column(f) == [i \in 1..Len(f.rows) |-> f.rows[i]["Assigned Dealer Account"]]

build_zip_to_dealer(f) ==
    dict_zip(zip_clean_column(f), dealer_column(f), Len(f.rows))

ProcessDeepwaterZips ==
    /\ pc = "zips"
    /\ IF read_csv_raises(zips_csv)
       THEN /\ pc' = "aborted"
            /\ UNCHANGED <<zip_to_dealer, stdout>>
       ELSE /\ zip_to_dealer' = build_zip_to_dealer(zips_csv)
            /\ stdout' = Append(stdout,
                 Line(MsgZipCount, Len(zips_csv.rows)))
            /\ pc' = "update"
    /\ UNCHANGED <<leads_csv, zips_csv, df, out_csv, zip_str, zip_ret>>

----------------------------------------------------------------------------
(* update_deepwater_dealers *)

DeepWater == Text("Deep Water")
Struxure == Text("Struxure")

\* df['Route To'] == 'Deep Water'
deepwater_mask(d) == {i \in 1..Len(d.rows) : d.rows[i]["Route To"] = DeepWater}

\* the empty-dealer mask without the Route To test
empty_dealer_mask_any_route(d) ==
    {i \in 1..Len(d.rows) :
        isna(d.rows[i]["Deepwater Dealer"]) \/ d.rows[i]["Deepwater Dealer"] = Text("")}

\* the empty-dealer mask without the emptiness test
empty_dealer_mask_any_dealer(d) == deepwater_mask(d)

\* (deepwater_mask) & (df['Deepwater Dealer'].isna() | (df['Deepwater Dealer'] == ''))
empty_dealer_mask(d) ==
    {i \in deepwater_mask(d) :
        isna(d.rows[i]["Deepwater Dealer"]) \/ d.rows[i]["Deepwater Dealer"] = Text("")}

\* the lookup without the truthiness test of zip_code
zip_matches_any(zip_code, dict) == zip_code \in DOMAIN dict

\* if zip_code and zip_code in zip_to_dealer
zip_matches(zip_code, dict) == zip_code # <<>> /\ zip_code \in DOMAIN dict

\* the for loop over empty_dealer_leads.iterrows(), a snapshot taken before
\* the loop: [df, updated_count] after the rows from position i on
RECURSIVE update_loop(_, _, _, _, _)
update_loop(d, todo, dict, i, updated_count) ==
    IF i > Len(todo.rows) THEN [df |-> d, updated_count |-> updated_count]
    ELSE LET zip_code == todo.rows[i]["Zip_Clean"]
         IN  IF zip_matches(zip_code, dict)
             THEN update_loop(df_at_set(d, todo.index[i], "Deepwater Dealer", dict[zip_code]),
                              todo, dict, i + 1, updated_count + 1)
             ELSE update_loop(d, todo, dict, i + 1, updated_count)

update_result(d, dict) ==
    update_loop(d, BoolIndex(d, empty_dealer_mask(d)), dict, 1, 0)

still_empty(d) == BoolIndex(d, empty_dealer_mask(d))

UpdateDeepwaterDealers ==
    /\ pc = "update"
    /\ LET res == update_result(df, zip_to_dealer)
           remaining == Len(still_empty(res.df).rows)
       IN  /\ df' = res.df
           /\ stdout' = stdout \o
                << Line(MsgFound, Cardinality(deepwater_mask(df))),
                   Line(MsgFoundEmpty,
                        Cardinality(empty_dealer_mask(df))),
                   Line(MsgUpdated,
                        res.updated_count) >>
                \o (IF remaining > 0
                    THEN <<Line(MsgRemaining,
                                remaining)>>
                    ELSE <<>>)
    /\ pc' = "drop"
    /\ UNCHANGED <<leads_csv, zips_csv, zip_to_dealer, out_csv, zip_str, zip_ret>>

----------------------------------------------------------------------------
(* main: the steps after update_deepwater_dealers *)

\* df_updated = df_updated.drop('Zip_Clean', axis=1)
DropZipClean ==
    /\ pc = "drop"
    /\ df' = drop_column(df, "Zip_Clean")
    /\ pc' = "save"
    /\ UNCHANGED <<leads_csv, zips_csv, zip_to_dealer, stdout, out_csv, zip_str, zip_ret>>

\* to_csv writes a datetime and a date as text and NaN as an empty field
to_csv_cell(v) ==
    CASE v.t = "datetime" -> TsText(v.day, v.tod)
      [] v.t = "date" -> [t |-> "str", ok |-> TRUE, day |-> v.day]
      [] OTHER -> v

\* DataFrame.to_csv(name, index=False): the header and the rows, no labels
to_csv(d) ==
    CsvFile(d.columns,
            [i \in 1..Len(d.rows) |->
                [c \in DOMAIN d.rows[i] |-> to_csv_cell(d.rows[i][c])]])

dealer_known(d) ==
    {i \in deepwater_mask(d) :
        ~isna(d.rows[i]["Deepwater Dealer"]) /\ d.rows[i]["Deepwater Dealer"] # Text("")}

\* the save step run also after a fatal error (as from a finally block)
SaveCsvFinally ==
    /\ pc \in {"save", "aborted"}
    /\ out_csv' = to_csv(df)
    /\ stdout' = Append(stdout, Line(MsgFinal, Len(df.rows)))
    /\ pc' = "done"
    /\ UNCHANGED <<leads_csv, zips_csv, df, zip_to_dealer, zip_str, zip_ret>>

SaveCsv ==
    /\ pc = "save"
    /\ out_csv' = to_csv(df)
    /\ stdout' = stdout \o
         << Line(MsgFinal, Len(df.rows)),
            Line("Total leads", Len(df.rows)),
            Line("Struxure leads",
                 Cardinality({i \in 1..Len(df.rows) : df.rows[i]["Route To"] = Struxure})),
            Line("Deep Water leads", Cardinality(deepwater_mask(df))),
            Line("Deep Water leads with dealer info", Cardinality(dealer_known(df))) >>
    /\ pc' = "done"
    /\ UNCHANGED <<leads_csv, zips_csv, df, zip_to_dealer, zip_str, zip_ret>>

Next ==
    \/ ProcessStruxureLeads
    \/ ProcessDeepwaterZips
    \/ UpdateDeepwaterDealers
    \/ DropZipClean
    \/ SaveCsv

----------------------------------------------------------------------------
(* Inputs of the pipeline specifications. *)

LeadColumns ==
    <<"Timestamp", "First Name", "Last Name", "Email", "Zip", "Route To", "Deepwater Dealer">>
ZipColumns == <<"zip", "Assigned Dealer Account">>

LeadRow(ts, email, zip, route, dealer) ==
    ("Timestamp" :> ts) @@ ("First Name" :> Text("Ann")) @@ ("Last Name" :> Text("Lee"))
    @@ ("Email" :> email) @@ ("Zip" :> zip) @@ ("Route To" :> route)
    @@ ("Deepwater Dealer" :> dealer)

ZipRow(zip, dealer) == ("zip" :> zip) @@ ("Assigned Dealer Account" :> dealer)

Zip90210 == Text(<<"9","0","2","1","0">>)
Zip90210Plus4 == Text(<<"9","0","2","1","0","-","1","2","3","4">>)
Zip90210Padded == Text(<<" ","9","0","2","1","0">>)
Zip10001 == Text(<<"1","0","0","0","1">>)

InitFiles(LeadFiles, ZipFiles) ==
    /\ pc = "start"
    /\ leads_csv \in LeadFiles \cup {Missing}
    /\ zips_csv \in ZipFiles \cup {Missing}
    /\ df = NoDf
    /\ zip_to_dealer = <<>>
    /\ stdout = <<>>
    /\ out_csv = Missing
    /\ zip_str = NaN
    /\ zip_ret = <<>>

\* deduplication: rows differing in Email and Timestamp
DedupRows ==
    {LeadRow(ts, email, Zip90210, DeepWater, NaN) :
        ts \in {TsText(1, 0), TsText(1, 1), TsText(2, 0), BadTs},
        email \in {Text("a@x.com"), Text("b@x.com"), NaN}}

DedupLeadFiles == {CsvFile(LeadColumns, rows) : rows \in SeqUpTo(DedupRows, MaxDedupLeads)}
OneZipFile == {CsvFile(ZipColumns, <<ZipRow(Zip90210, Text("DealerX"))>>)}

InitDedup == InitFiles(DedupLeadFiles, OneZipFile)
SpecDedup == InitDedup /\ [][Next]_vars

\* dealer fill: rows differing in Route To, Deepwater Dealer and Zip
FillRows ==
    {LeadRow(TsText(1, 0), Text("a@x.com"), zip, route, dealer) :
        zip \in {NaN, Zip90210Plus4, Zip10001},
        route \in {DeepWater, Struxure},
        dealer \in {NaN, Text("DealerZ")}}

\* a same-day duplicate of the row above it: dropped by the deduplication,
\* so the surviving rows' labels are 0, 2, 4, ... and differ from positions
DuplicateOf(row) ==
    ("Zip" :> Zip90210Plus4) @@ ("Route To" :> DeepWater) @@ ("Deepwater Dealer" :> NaN) @@ row

\* row i is dated day i and every row but the last is followed by its duplicate
RECURSIVE Redated(_, _)
Redated(rows, i) ==
    IF i > Len(rows) THEN <<>>
    ELSE LET row == ("Timestamp" :> TsText(i, 0)) @@ rows[i]
         IN  <<row>> \o (IF i < Len(rows) THEN <<DuplicateOf(row)>> ELSE <<>>)
             \o Redated(rows, i + 1)

FillLeadFiles ==
    {CsvFile(LeadColumns, Redated(rows, 1)) : rows \in SeqUpTo(FillRows, MaxFillLeads)}

FillZipRows ==
    {ZipRow(zip, dealer) :
        zip \in {Zip90210, NaN}, dealer \in {Text("DealerX"), NaN}}

FillZipFiles == {CsvFile(ZipColumns, rows) : rows \in SeqUpTo(FillZipRows, MaxFillZips)}

InitFill == InitFiles(FillLeadFiles, FillZipFiles)
SpecFill == InitFill /\ [][Next]_vars

\* map building: dealer rows differing in zip and dealer
MapZipRows ==
    {ZipRow(zip, dealer) :
        zip \in {Zip90210, Zip90210Padded, Zip10001, NaN},
        dealer \in {Text("DealerX"), Text("DealerY"), NaN}}

MapZipFiles == {CsvFile(ZipColumns, rows) : rows \in SeqUpTo(MapZipRows, MaxMapRows)}
OneLeadFile ==
    {CsvFile(LeadColumns, <<LeadRow(TsText(1, 0), Text("a@x.com"), Zip90210Plus4, DeepWater, NaN)>>)}

InitMap == InitFiles(OneLeadFile, MapZipFiles)
SpecMap == InitMap /\ [][Next]_vars

----------------------------------------------------------------------------
(* Properties. *)

DecimalDigits == {"0", "1", "2", "3", "4", "5", "6", "7", "8", "9"}

\* the number a count line reports, 0 when the line was not printed
ReportedIn(out, text) ==
    IF \E i \in 1..Len(out) : out[i].line = text
    THEN out[CHOOSE i \in 1..Len(out) : out[i].line = text].n
    ELSE 0

Reported(text) == ReportedIn(stdout, text)

Loaded == pc \in {"zips", "update", "drop", "save", "done"}
MapBuilt == pc \in {"update", "drop", "save", "done"}
FillStep == pc = "update" /\ pc' = "drop"

\* (Email, calendar date) of input row i and of surviving row p
InputKey(i) == <<leads_csv.rows[i]["Email"], leads_csv.rows[i]["Timestamp"].day>>
SurvivorKey(p) == <<df.rows[p]["Email"], df.rows[p]["Date"].day>>

\* surviving row p, as returned by process_struxure_leads, is input row i
SameLead(p, i) ==
    /\ \A c \in {"First Name", "Last Name", "Email", "Zip", "Route To", "Deepwater Dealer"} :
          df.rows[p][c] = leads_csv.rows[i][c]
    /\ df.rows[p]["Timestamp"].day = leads_csv.rows[i]["Timestamp"].day
    /\ df.rows[p]["Timestamp"].tod = leads_csv.rows[i]["Timestamp"].tod

\* C1: the rows process_struxure_leads returns are exactly the first
\* occurrences, in file order, of each (Email, calendar date) key of the
\* input: no two survivors share a key, every survivor is the earliest input
\* row of its key, every input key has a survivor, and survivors keep the
\* input order; duplicates collapse wherever they stand in the file.
C1_FirstOccurrenceSurvives ==
    Loaded =>
        LET n == Len(leads_csv.rows)
            m == Len(df.rows)
        IN  /\ Len(df.index) = m
            /\ \A p, q \in 1..m : p # q => SurvivorKey(p) # SurvivorKey(q)
            /\ \A p \in 1..m :
                  /\ df.index[p] \in 0..(n - 1)
                  /\ SurvivorKey(p) = InputKey(df.index[p] + 1)
                  /\ \A j \in 1..df.index[p] : InputKey(j) # InputKey(df.index[p] + 1)
                  /\ pc = "zips" => SameLead(p, df.index[p] + 1)
            /\ \A i \in 1..n : \E p \in 1..m : SurvivorKey(p) = InputKey(i)
            /\ \A p, q \in 1..m : p < q => df.index[p] < df.index[q]

\* three rows, the third a duplicate of the first with another row between
C1_Witness ==
    /\ pc = "zips"
    /\ Len(leads_csv.rows) = 3
    /\ InputKey(1) = InputKey(3)
    /\ InputKey(1) # InputKey(2)
    /\ leads_csv.rows[1]["Timestamp"].tod # leads_csv.rows[3]["Timestamp"].tod
    /\ df.index = <<0, 1>>

\* a Deep Water lead with no dealer whose normalized postal code is a
\* non-empty key of the map
Resolvable(i) ==
    /\ df.rows[i]["Route To"] = DeepWater
    /\ (df.rows[i]["Deepwater Dealer"] = NaN \/ df.rows[i]["Deepwater Dealer"] = Text(""))
    /\ df.rows[i]["Zip_Clean"] # <<>>
    /\ df.rows[i]["Zip_Clean"] \in DOMAIN zip_to_dealer

\* a Deep Water lead with no dealer whose normalized postal code is empty or
\* no key of the map
Unresolvable(i) ==
    /\ df.rows[i]["Route To"] = DeepWater
    /\ (df.rows[i]["Deepwater Dealer"] = NaN \/ df.rows[i]["Deepwater Dealer"] = Text(""))
    /\ (df.rows[i]["Zip_Clean"] = <<>> \/ df.rows[i]["Zip_Clean"] \notin DOMAIN zip_to_dealer)

\* C2: update_deepwater_dealers gives every Deep Water lead with no dealer
\* and a non-empty normalized postal code found in the map the map's dealer
\* for that code, and the update count counts each such lead.
C2_ResolvableLeadFilled ==
    [][FillStep =>
        /\ Len(df'.rows) = Len(df.rows)
        /\ \A i \in 1..Len(df.rows) :
              Resolvable(i) =>
                  df'.rows[i]["Deepwater Dealer"] = zip_to_dealer[df.rows[i]["Zip_Clean"]]
        /\ ReportedIn(stdout', MsgUpdated)
              = Cardinality({i \in 1..Len(df.rows) : Resolvable(i)})]_vars

\* a filled lead whose label (2) is not its position
C2_Witness ==
    /\ pc = "drop"
    /\ Reported(MsgUpdated) >= 1
    /\ \E p \in 1..Len(df.rows) :
          /\ df.index[p] = 2
          /\ leads_csv.rows[3]["Deepwater Dealer"] = NaN
          /\ leads_csv.rows[3]["Route To"] = DeepWater
          /\ df.rows[p]["Deepwater Dealer"] = Text("DealerX")

\* C3: update_deepwater_dealers leaves unchanged every Deep Water lead with
\* no dealer whose normalized postal code is empty or no key of the map, and
\* the count of remaining leads counts it; an empty code never gets a dealer,
\* also when the map has the empty string as a key.
C3_UnresolvableLeadKept ==
    [][FillStep =>
        /\ Len(df'.rows) = Len(df.rows)
        /\ \A i \in 1..Len(df.rows) :
              Unresolvable(i) => df'.rows[i] = df.rows[i] /\ df'.index[i] = df.index[i]
        /\ LET left == {i \in 1..Len(df.rows) : Unresolvable(i)}
               empty_after ==
                   {i \in 1..Len(df'.rows) :
                       /\ df'.rows[i]["Route To"] = DeepWater
                       /\ (df'.rows[i]["Deepwater Dealer"] = NaN
                           \/ df'.rows[i]["Deepwater Dealer"] = Text(""))}
           IN  /\ left \subseteq empty_after
               /\ ReportedIn(stdout', MsgRemaining) = Cardinality(empty_after)]_vars

\* after the fill: the map has the empty key with a dealer, one Deep Water
\* lead has an empty code and another a code that is no key, both without
\* dealer
C3_Witness ==
    /\ pc = "drop"
    /\ <<>> \in DOMAIN zip_to_dealer
    /\ zip_to_dealer[<<>>] = Text("DealerX")
    /\ \E p, q \in 1..Len(df.rows) :
          /\ df.rows[p]["Route To"] = DeepWater
          /\ df.rows[p]["Zip_Clean"] = <<>>
          /\ df.rows[p]["Deepwater Dealer"] = NaN
          /\ df.rows[q]["Route To"] = DeepWater
          /\ df.rows[q]["Zip_Clean"] = <<"1","0","0","0","1">>
          /\ df.rows[q]["Deepwater Dealer"] = NaN
    /\ Reported(MsgRemaining) = 2

\* C4: update_deepwater_dealers changes no field of a lead whose Route To
\* is not "Deep Water", whatever its dealer field and postal code hold.
C4_OtherRoutesUntouched ==
    [][FillStep =>
        /\ df'.columns = df.columns
        /\ df'.index = df.index
        /\ Len(df'.rows) = Len(df.rows)
        /\ \A i \in 1..Len(df.rows) :
              df.rows[i]["Route To"] # DeepWater => df'.rows[i] = df.rows[i]]_vars

\* after the fill: a Struxure lead with no dealer whose code maps to a dealer
C4_Witness ==
    /\ pc = "drop"
    /\ \E p \in 1..Len(df.rows) :
          /\ df.rows[p]["Route To"] = Struxure
          /\ df.rows[p]["Deepwater Dealer"] = NaN
          /\ df.rows[p]["Zip_Clean"] \in DOMAIN zip_to_dealer
          /\ zip_to_dealer[df.rows[p]["Zip_Clean"]] = Text("DealerX")

\* C5: update_deepwater_dealers never changes a dealer field that is
\* populated before the fill, also for a Deep Water lead whose normalized
\* postal code maps to another dealer.
C5_PopulatedDealerKept ==
    [][FillStep =>
        /\ Len(df'.rows) = Len(df.rows)
        /\ \A i \in 1..Len(df.rows) :
              (df.rows[i]["Deepwater Dealer"] # NaN /\ df.rows[i]["Deepwater Dealer"] # Text(""))
                  => df'.rows[i]["Deepwater Dealer"] = df.rows[i]["Deepwater Dealer"]]_vars

\* after the fill: a Deep Water lead keeps DealerZ though its code maps to
\* DealerX
C5_Witness ==
    /\ pc = "drop"
    /\ \E p \in 1..Len(df.rows) :
          /\ df.rows[p]["Route To"] = DeepWater
          /\ df.rows[p]["Deepwater Dealer"] = Text("DealerZ")
          /\ df.rows[p]["Zip_Clean"] \in DOMAIN zip_to_dealer
          /\ zip_to_dealer[df.rows[p]["Zip_Clean"]] = Text("DealerX")

\* C6: the file main writes has the columns of the input lead file, in the
\* same order, and no column the input lacks.
C6_OutputHasInputColumns ==
    out_csv.exists => out_csv.columns = leads_csv.columns

\* normalized postal code of dealer row i
NormalizedZip(i) == clean_zip_code(zips_csv.rows[i]["zip"])

\* C7: the map process_deepwater_zips builds has exactly the distinct
\* normalized postal codes of the dealer file as keys, and for each code the
\* dealer of the last row, in file order, that normalizes to it.
C7_LastRowWins ==
    MapBuilt =>
        LET n == Len(zips_csv.rows)
        IN  /\ DOMAIN zip_to_dealer = {NormalizedZip(i) : i \in 1..n}
            /\ \A i \in 1..n :
                  (\A j \in (i + 1)..n : NormalizedZip(j) # NormalizedZip(i))
                      => zip_to_dealer[NormalizedZip(i)]
                             = zips_csv.rows[i]["Assigned Dealer Account"]

\* two rows of different text normalizing to 90210, with different dealers
C7_Witness ==
    /\ pc = "update"
    /\ Len(zips_csv.rows) = 2
    /\ zips_csv.rows[1]["zip"] # zips_csv.rows[2]["zip"]
    /\ NormalizedZip(1) = NormalizedZip(2)
    /\ zips_csv.rows[1]["Assigned Dealer Account"] = Text("DealerX")
    /\ zips_csv.rows[2]["Assigned Dealer Account"] = Text("DealerY")
    /\ zip_to_dealer[<<"9","0","2","1","0">>] = Text("DealerY")

\* C8: with either input file missing the run aborts and writes no output;
\* the output file exists only once both files were read and the fill ran.
C8_NoOutputWithoutInputs ==
    /\ ~leads_csv.exists => pc \in {"start", "aborted"} /\ ~out_csv.exists
    /\ ~zips_csv.exists => pc \in {"start", "zips", "aborted"} /\ ~out_csv.exists
    /\ pc = "aborted" => ~out_csv.exists
    /\ out_csv.exists =>
          /\ leads_csv.exists /\ zips_csv.exists
          /\ pc = "done"
          /\ \E i \in 1..Len(stdout) : stdout[i].line = MsgOriginal
          /\ \E i \in 1..Len(stdout) : stdout[i].line = MsgZipCount
          /\ \E i \in 1..Len(stdout) : stdout[i].line = MsgUpdated

\* the run aborted on the missing dealer file after loading the leads
C8_Witness ==
    /\ pc = "aborted"
    /\ leads_csv.exists
    /\ Len(leads_csv.rows) >= 1
    /\ ~zips_csv.exists
    /\ Len(df.rows) >= 1
    /\ ~out_csv.exists

\* the text between the first and the last non-whitespace character
Trimmed(s) ==
    LET at == {i \in 1..Len(s) : s[i] \notin Whitespace}
    IN  IF at = {} THEN <<>>
        ELSE SubSeq(s, CHOOSE i \in at : \A j \in at : i <= j,
                       CHOOSE i \in at : \A j \in at : i >= j)

\* C9: clean_zip_code returns the empty string or exactly 5 decimal digits:
\* the first 5 characters of the trimmed string form of its argument when
\* those exist and are all digits, the empty string otherwise (missing or
\* empty argument, fewer than 5 leading digits, no leading digit).
C9_FirstFiveDigits ==
    pc = "clean_ret" =>
        /\ \/ zip_ret = <<>>
           \/ Len(zip_ret) = 5 /\ \A i \in 1..5 : zip_ret[i] \in DecimalDigits
        /\ IF zip_str = NaN \/ zip_str = Text(<<>>) THEN zip_ret = <<>>
           ELSE LET t == Trimmed(str(zip_str))
                IN  IF Len(t) >= 5 /\ \A i \in 1..5 : t[i] \in DecimalDigits
                    THEN zip_ret = SubSeq(t, 1, 5)
                    ELSE zip_ret = <<>>
        /\ zip_str = Text(<<"9","0","2","1","0","-","1","2","3","4">>)
              => zip_ret = <<"9","0","2","1","0">>
        /\ zip_str = Text(<<" ","9","0","2","1","0"," ">>) => zip_ret = <<"9","0","2","1","0">>
        /\ zip_str = Text(<<"A","B","C","1","2">>) => zip_ret = <<>>
        /\ zip_str = Text(<<"1","2","3","4">>) => zip_ret = <<>>

\* " 90210 " was cleaned to "90210"
C9_Witness ==
    /\ pc = "clean_ret"
    /\ zip_str = Text(<<" ","9","0","2","1","0"," ">>)
    /\ zip_ret = <<"9","0","2","1","0">>

\* C10: after update_deepwater_dealers the update count plus the count of
\* Deep Water leads remaining without dealer information equals the count of
\* Deep Water leads found with empty dealer fields.
C10_CountsPartitionCandidates ==
    pc \in {"drop", "save", "done"} =>
        Reported(MsgUpdated) + Reported(MsgRemaining) = Reported(MsgFoundEmpty)

====
